---- MODULE Spec2Model ----
(***************************************************************************)
(* Verification model of active_particles.maths (src/maths.py).            *)
(*                                                                         *)
(* Components modelled:                                                    *)
(*   - Wrap            periodic wrap of a sampled function (_evaluate and  *)
(*                     the worker pool of evaluate)                        *)
(*   - FFT2Dfilter     filter chain over Fourier coefficients              *)
(*   - wave_vectors_2D / vector_vector_grid                                *)
(*   - Grid            cartesian lookup                                    *)
(*                                                                         *)
(* Real numbers are modelled exactly with integers: coordinates, periods   *)
(* and sample values are integers; squared wave-vector norms are integers  *)
(* in units of (2*pi/(nx*ny*d))^2.                                         *)
(***************************************************************************)
EXTENDS Integers, Sequences, FiniteSets, TLC

VARIABLES
    wrap,       \* the Wrap object: [x, y, tri, xmin, xmax, p]
    fill_value, \* fill_value argument of evaluate / _evaluate
    calls,      \* log of the last _evaluate calls: sequence of [X, Y]
    X,          \* evaluate: the batch of query points (positional arguments)
    processes,  \* evaluate: number of worker processes of the pool
    pool,       \* state of the multiprocessing.Pool: "none", "running", "terminated"
    taskqueue,  \* chunks not yet taken by a worker: sequence of chunk indexes
    worker,     \* the chunk indexes the worker processes are computing
    mapresult,  \* the MapResult of starmap: [value, success, number_left, chunksize]
    history,    \* ghost: [reordered, succeeded] of the chunks completed so far
    arrays,     \* the Numpy arrays allocated so far: sequence of [shape, data]
    filters,    \* the FFT2Dfilter objects: sequence of [signalFFT, wave_vectors,
                \* wave_vectors_norm] (references into arrays) with the call that made them
    raised,     \* exception raised by the last FFT2Dfilter / wave_vectors_2D call, or ""
    wv,         \* value returned by a direct call of wave_vectors_2D, with its arguments
    grid,       \* the Grid object: [shape, extent, box_size]
    lookup,     \* the last Grid.get_value_cartesian call: [x, y, value]
    grid_coordinates, \* the attribute Grid.grid_coordinates: <<>> until computed
    g2D,        \* the 2D grid handed to g2Dto1D, g2Dto1Dsquare, g2Dto1Dgrid: [shape, data]
    g1D,        \* the last call of each of these functions: [L or grid, out]
    histogram,  \* the Histogram object: [Nbins, vmin, vmax, bins, values, hist]
    pc,         \* position of the caller of evaluate: "idle", "waiting", "returned", "raised"
    ret         \* what evaluate returned (array) or raised (exception name)

wrapVars == <<wrap, fill_value>>
evalVars == <<calls>>
poolVars == <<X, processes, pool, taskqueue, worker, mapresult, pc, ret, history>>
fftVars == <<arrays, filters, raised, wv>>
gridVars == <<grid, lookup, grid_coordinates>>
radialVars == <<g2D, g1D>>
histVars == <<histogram>>
vars == <<wrapVars, evalVars, poolVars, fftVars, gridVars, radialVars, histVars>>

\* the components a specification does not exercise stay in these states
WrapUnused ==
    /\ wrap = <<>>
    /\ fill_value = 0
    /\ calls = <<>>

FilterUnused ==
    /\ arrays = <<>>
    /\ filters = <<>>
    /\ raised = ""
    /\ wv = <<>>

GridUnused ==
    /\ grid = <<>>
    /\ lookup = <<>>
    /\ grid_coordinates = <<>>

RadialUnused ==
    /\ g2D = <<>>
    /\ g1D = <<>>

HistUnused ==
    /\ histogram = <<>>

-----------------------------------------------------------------------------
(* Bounds of the model *)

\* query coordinates range over -MaxQuery..MaxQuery
MaxQuery == 2
\* periods range over 1..MaxPeriod on each axis
MaxPeriod == 4
\* evaluate is called with at most MaxBatch query points
MaxBatch == 4
\* and with 1..MaxProcs worker processes
MaxProcs == 2
\* wave_vectors_2D is called with window lengths 1..MaxN
MaxN == 3
\* a chain of at most MaxOps filtering calls follows the construction of a filter
MaxOps == 2
\* the sample array of a Grid has 1..MaxShape rows and columns
MaxShape == 3
\* Grid lookups are made at coordinates -MaxCoord..MaxCoord
MaxCoord == 3
\* the grids of g2Dto1D, g2Dto1Dsquare, g2Dto1Dgrid have 1..MaxGrid rows and columns
MaxGrid == 3
\* box lengths range over 1..MaxL
MaxL == 3
\* and one square grid has LargeGrid rows and columns
LargeGrid == 11
\* histograms have 1..MaxBins bins
MaxBins == 3
\* and hold at most MaxValues values
MaxValues == 3

-----------------------------------------------------------------------------
(* Helpers: exact integer arithmetic *)

\* math.floor(a/b) for b > 0
floor(a, b) == a \div b

\* math.ceil(a/b) for b > 0
ceil(a, b) == -((-a) \div b)

RECURSIVE SeqSum(_)
SeqSum(s) == IF s = <<>> THEN 0 ELSE Head(s) + SeqSum(Tail(s))

SetMin(S) == CHOOSE a \in S : \A b \in S : a <= b
SetMax(S) == CHOOSE a \in S : \A b \in S : a >= b

\* fractions [num, den], den > 0, reduced
RECURSIVE gcd(_, _)
gcd(a, b) == IF b = 0 THEN a ELSE gcd(b, a % b)

abs(a) == IF a < 0 THEN -a ELSE a

ratio(n, d) == LET g == gcd(abs(n), d) IN [den |-> d \div g, num |-> n \div g]

plus(a, b) == ratio(a.num * b.den + b.num * a.den, a.den * b.den)

less(a, b) == a.num * b.den < b.num * a.den

-----------------------------------------------------------------------------
(* Wrap.__init__ *)

\* np.min(self.x, axis=0), np.max(self.x, axis=0)
np_min(pts) == [d \in 1..2 |-> SetMin({pts[i][d] : i \in DOMAIN pts})]
np_max(pts) == [d \in 1..2 |-> SetMax({pts[i][d] : i \in DOMAIN pts})]

\* Sample sets with sample values, together with the Delaunay triangulation
\* scipy.interpolate.griddata builds for them (triangles as triples of sample
\* indexes).  The four corners of a square are cocircular: either diagonal
\* is a Delaunay triangulation, so both are given.
Samples ==
    { [x |-> << <<0, 0>>, <<2, 0>>, <<0, 2>> >>,
       y |-> <<2, 4, 8>>,
       tri |-> { <<1, 2, 3>> }],
      [x |-> << <<0, 0>>, <<2, 0>>, <<0, 2>>, <<2, 2>> >>,
       y |-> <<2, 4, 8, 6>>,
       tri |-> { <<1, 2, 3>>, <<2, 3, 4>> }],
      [x |-> << <<0, 0>>, <<2, 0>>, <<0, 2>>, <<2, 2>> >>,
       y |-> <<2, 4, 8, 6>>,
       tri |-> { <<1, 2, 4>>, <<1, 3, 4>> }] }

Wrap__init__(s, period) ==
    [x |-> s.x, y |-> s.y, tri |-> s.tri,
     xmin |-> np_min(s.x), xmax |-> np_max(s.x),
     p |-> period]

-----------------------------------------------------------------------------
(* scipy.interpolate.griddata(self.x, self.y, xi, method='linear',         *)
(* fill_value=fill_value)[0] as used by Wrap._evaluate                      *)

Cross(a, b, c) == (b[1] - a[1]) * (c[2] - a[2]) - (b[2] - a[2]) * (c[1] - a[1])

\* barycentric weights of xi in triangle t (not normalised)
Weights(w, t, xi) ==
    << Cross(xi, w.x[t[2]], w.x[t[3]]),
       Cross(w.x[t[1]], xi, w.x[t[3]]),
       Cross(w.x[t[1]], w.x[t[2]], xi) >>

InTriangle(w, t, xi) ==
    LET D == Cross(w.x[t[1]], w.x[t[2]], w.x[t[3]])
        b == Weights(w, t, xi)
    IN  \A k \in 1..3 : b[k] * D >= 0

\* xi lies in the convex hull of the samples
InHull(w, xi) == \E t \in w.tri : InTriangle(w, t, xi)

griddata(w, xi, fill) ==
    IF InHull(w, xi)
    THEN LET t == CHOOSE t \in w.tri : InTriangle(w, t, xi)
             D == Cross(w.x[t[1]], w.x[t[2]], w.x[t[3]])
             b == Weights(w, t, xi)
         IN  (b[1] * w.y[t[1]] + b[2] * w.y[t[2]] + b[3] * w.y[t[3]]) \div D
    ELSE fill

-----------------------------------------------------------------------------
(* Wrap._evaluate *)

\* mutant of mmin: int() (truncation toward zero) in place of math.ceil
mmin_trunc(w, X0) ==
    [d \in 1..2 |-> IF w.xmin[d] - X0[d] >= 0
                    THEN floor(w.xmin[d] - X0[d], w.p[d])
                    ELSE ceil(w.xmin[d] - X0[d], w.p[d])]

\* mmin = ceil((self.xmin - X)/self.p), mmax = floor((self.xmax - X)/self.p)
mmin(w, X0) == [d \in 1..2 |-> ceil(w.xmin[d] - X0[d], w.p[d])]
mmax(w, X0) == [d \in 1..2 |-> floor(w.xmax[d] - X0[d], w.p[d])]

\* mutant of ndshape: the range taken as half-open (mmax - mmin)
ndshape_halfopen(w, X0) == [d \in 1..2 |-> mmax(w, X0)[d] - mmin(w, X0)[d]]

\* tuple(mmax - mmin + 1)
ndshape(w, X0) == [d \in 1..2 |-> mmax(w, X0)[d] - mmin(w, X0)[d] + 1]

\* np.ndindex(shape): every index of an array of that shape, last axis
\* fastest; nothing when a dimension is 0
ndindex(shape) ==
    [k \in 1..(shape[1] * shape[2]) |->
        << (k - 1) \div shape[2], (k - 1) % shape[2] >>]

\* the loop body: m = mmin + np.array(m); image X + self.p*m
image(w, X0, idx) ==
    [d \in 1..2 |-> X0[d] + w.p[d] * (mmin(w, X0)[d] + idx[d])]

_evaluate(w, X0, fill) ==
    LET shape == ndshape(w, X0)
    IN  IF \E d \in 1..2 : shape[d] < 0
        THEN "ValueError"   \* np.ndindex rejects negative dimensions
        ELSE LET ms == ndindex(shape)
             IN  SeqSum([k \in DOMAIN ms |-> griddata(w, image(w, X0, ms[k]), fill)])

-----------------------------------------------------------------------------
(* Wrap.evaluate: Pool(processes).starmap(partial(self._evaluate, ...),    *)
(* product(X)) inside a with block.                                        *)
(*                                                                         *)
(* A query point of the batch is [v |-> coordinates, fin |-> "finite"],    *)
(* or has a coordinate that is not a finite float: fin = "nan" or "inf".   *)

\* what one task does in a worker: partial(self._evaluate, ...)(*args).
\* math.ceil raises ValueError on NaN and OverflowError on infinity.
task(w, q, fill) ==
    IF q.fin = "nan" THEN [ok |-> FALSE, exc |-> "ValueError"]
    ELSE IF q.fin = "inf" THEN [ok |-> FALSE, exc |-> "OverflowError"]
    ELSE [ok |-> TRUE, row |-> <<_evaluate(w, q.v, fill)>>]

\* starmap's default chunksize: divmod(len(iterable), len(pool)*4), rounded
\* up; 0 for an empty iterable
chunksize(len, procs) ==
    IF len = 0 THEN 0
    ELSE (len \div (procs * 4)) + (IF len % (procs * 4) # 0 THEN 1 ELSE 0)

\* number of chunks (MapResult._number_left)
number_left(len, cs) ==
    IF cs = 0 THEN 0 ELSE (len \div cs) + (IF len % cs # 0 THEN 1 ELSE 0)

\* positions of the batch that chunk i holds
chunk(i, len, cs) == {k \in 1..len : (i - 1) * cs < k /\ k <= i * cs}

\* a worker runs chunk i: list(starmap(func, chunk)); the first task that
\* raises ends the chunk with that exception
run_chunk(w, batch, i, cs, fill) ==
    LET ks == chunk(i, Len(batch), cs)
        bad == {k \in ks : ~task(w, batch[k], fill).ok}
    IN  IF bad # {}
        THEN [ok |-> FALSE, exc |-> task(w, batch[SetMin(bad)], fill).exc]
        ELSE [ok |-> TRUE,
              rows |-> [k \in ks |-> task(w, batch[k], fill).row]]

\* mutant of MapResult_set: rows stored in the order the chunks complete
MapResult_set_unordered(mr, i, res) ==
    LET nth == number_left(Len(X), mr.chunksize) - mr.number_left + 1
        shift == (nth - i) * mr.chunksize
    IN  IF res.ok /\ mr.success
        THEN [mr EXCEPT !.number_left = @ - 1,
                        !.value = [k \in DOMAIN mr.value |->
                            IF (k - shift) \in DOMAIN res.rows
                            THEN res.rows[k - shift] ELSE mr.value[k]]]
        ELSE IF ~res.ok /\ mr.success
        THEN [mr EXCEPT !.number_left = @ - 1, !.success = FALSE, !.value = res.exc]
        ELSE [mr EXCEPT !.number_left = @ - 1]

\* mutant of MapResult_set: a failed chunk is dropped, its rows left unset
MapResult_set_swallow(mr, i, res) ==
    IF res.ok
    THEN [mr EXCEPT !.number_left = @ - 1,
                    !.value = [k \in DOMAIN mr.value |->
                        IF k \in DOMAIN res.rows THEN res.rows[k] ELSE mr.value[k]]]
    ELSE [mr EXCEPT !.number_left = @ - 1]

\* the pool hands the result of chunk i to the MapResult of starmap
\* (MapResult._set): rows go to the slots of chunk i; the first failure
\* replaces the value by the exception and later results are dropped.
MapResult_set(mr, i, res) ==
    IF res.ok /\ mr.success
    THEN [mr EXCEPT !.number_left = @ - 1,
                    !.value = [k \in DOMAIN mr.value |->
                        IF k \in DOMAIN res.rows THEN res.rows[k] ELSE mr.value[k]]]
    ELSE IF ~res.ok /\ mr.success
    THEN [mr EXCEPT !.number_left = @ - 1, !.success = FALSE, !.value = res.exc]
    ELSE [mr EXCEPT !.number_left = @ - 1]

\* evaluate(*X, processes=procs) is entered: the pool is created and
\* starmap queues the chunks
EvaluateCall(batch, procs) ==
    /\ pc = "idle"
    /\ X' = batch
    /\ processes' = procs
    /\ pool' = "running"
    /\ worker' = {}
    /\ LET cs == chunksize(Len(batch), procs)
           nl == number_left(Len(batch), cs)
       IN  /\ taskqueue' = [i \in 1..nl |-> i]
           /\ mapresult' = [value |-> [k \in 1..Len(batch) |-> <<>>],
                            success |-> TRUE,
                            number_left |-> nl, chunksize |-> cs]
    /\ pc' = "waiting"
    /\ ret' = <<>>
    /\ history' = [reordered |-> FALSE, succeeded |-> 0]
    /\ UNCHANGED <<fftVars, gridVars, wrapVars, radialVars, histVars, evalVars>>

\* an idle worker of the pool takes the next chunk of the task queue (the
\* workers are interchangeable: worker is the set of chunks they hold)
WorkerTake ==
    /\ pool = "running"
    /\ Cardinality(worker) < processes
    /\ taskqueue # <<>>
    /\ worker' = worker \cup {Head(taskqueue)}
    /\ taskqueue' = Tail(taskqueue)
    /\ UNCHANGED <<fftVars, gridVars, wrapVars, radialVars, histVars, evalVars, X, processes, pool, mapresult, pc, ret, history>>

\* the worker holding chunk i finishes it and the result reaches the
\* MapResult
WorkerFinish(i) ==
    /\ pool = "running"
    /\ i \in worker
    /\ LET res == run_chunk(wrap, X, i, mapresult.chunksize, fill_value)
       IN  /\ mapresult' = MapResult_set(mapresult, i, res)
           /\ history' = [reordered |-> history.reordered \/ \E j \in worker : j < i,
                          succeeded |-> history.succeeded + (IF res.ok THEN 1 ELSE 0)]
    /\ worker' = worker \ {i}
    /\ UNCHANGED <<fftVars, gridVars, wrapVars, radialVars, histVars, evalVars, X, processes, pool, taskqueue, pc, ret>>

\* mutant of EvaluateExit: the pool is terminated on the returning path only
EvaluateExit_leak ==
    /\ pc = "waiting"
    /\ mapresult.number_left = 0
    /\ pool' = IF mapresult.success THEN "terminated" ELSE pool
    /\ worker' = {}
    /\ taskqueue' = <<>>
    /\ pc' = IF mapresult.success THEN "returned" ELSE "raised"
    /\ ret' = mapresult.value
    /\ UNCHANGED <<fftVars, gridVars, wrapVars, radialVars, histVars, evalVars, X, processes, mapresult, history>>

\* starmap is over once every chunk is done: it returns the list Y or
\* raises the stored exception; the with block terminates the pool on the
\* way out; evaluate returns np.array(Y)
EvaluateExit ==
    /\ pc = "waiting"
    /\ mapresult.number_left = 0
    /\ pool' = "terminated"
    /\ worker' = {}
    /\ taskqueue' = <<>>
    /\ pc' = IF mapresult.success THEN "returned" ELSE "raised"
    /\ ret' = mapresult.value
    /\ UNCHANGED <<fftVars, gridVars, wrapVars, radialVars, histVars, evalVars, X, processes, mapresult, history>>

-----------------------------------------------------------------------------
(* Specification SpecEval: single-point evaluation of the periodic wrap.   *)
(* Init draws the Wrap object (samples, period) and fill_value; each step  *)
(* applies Wrap._evaluate to a query point and logs the call (two calls    *)
(* are made on one object).                                                *)

Queries == (-MaxQuery..MaxQuery) \X (-MaxQuery..MaxQuery)
Periods == (1..MaxPeriod) \X (1..MaxPeriod)

WrapInit ==
    /\ wrap \in {Wrap__init__(s, period) : s \in Samples, period \in Periods}
    /\ fill_value \in {0, 1}

PoolUnused ==
    /\ X = <<>>
    /\ processes = 0
    /\ pool = "none"
    /\ taskqueue = <<>>
    /\ worker = {}
    /\ mapresult = <<>>
    /\ history = <<>>
    /\ pc = "idle"
    /\ ret = <<>>

EvalInit ==
    /\ WrapInit
    /\ calls = <<>>
    /\ PoolUnused
    /\ FilterUnused
    /\ RadialUnused
    /\ HistUnused
    /\ GridUnused

\* one call Wrap._evaluate(X0, fill_value=fill_value)
EvaluatePoint(X0) ==
    LET call == [X |-> X0, Y |-> _evaluate(wrap, X0, fill_value)]
    IN  /\ Len(calls) < 2
        /\ calls' = Append(calls, call)
        /\ UNCHANGED <<fftVars, gridVars, wrapVars, radialVars, histVars, poolVars>>

EvalNext == \E X0 \in Queries : EvaluatePoint(X0)

SpecEval == EvalInit /\ [][EvalNext]_vars

-----------------------------------------------------------------------------
(* Claims on Wrap._evaluate *)

\* shifts that can bring a query into the bounding box of the samples
MRange ==
    LET far == MaxQuery + SetMax({wrap.xmax[d] : d \in 1..2} \cup {-wrap.xmin[d] : d \in 1..2})
    IN  (-far)..far

\* the periodic images of X0 inside [xmin, xmax]: shift vectors m with
\* xmin <= X0 + p*m <= xmax on every axis, which is
\* ceil((xmin - X0)/p) <= m <= floor((xmax - X0)/p)
AxisShifts(X0, d) ==
    {k \in MRange : /\ wrap.xmin[d] <= X0[d] + wrap.p[d] * k
                    /\ X0[d] + wrap.p[d] * k <= wrap.xmax[d]}

ImageShifts(X0) == AxisShifts(X0, 1) \X AxisShifts(X0, 2)

RECURSIVE SumOver(_, _)
SumOver(S, X0) ==
    IF S = {} THEN 0
    ELSE LET m == CHOOSE m \in S : TRUE
             at == [d \in 1..2 |-> X0[d] + wrap.p[d] * m[d]]
         IN  (IF InHull(wrap, at) THEN griddata(wrap, at, fill_value) ELSE fill_value)
                + SumOver(S \ {m}, X0)

-----------------------------------------------------------------------------
(* Specification SpecPool: one call of Wrap.evaluate on a batch of query   *)
(* points with a pool of worker processes.                                 *)

PoolQueries ==
    { [v |-> <<0, 0>>, fin |-> "finite"],
      [v |-> <<2, 0>>, fin |-> "finite"],
      [v |-> <<0, 0>>, fin |-> "nan"],
      [v |-> <<0, 0>>, fin |-> "inf"] }

Batches == UNION {[1..len -> PoolQueries] : len \in 0..MaxBatch}

PoolInit ==
    /\ wrap \in {Wrap__init__(s, <<MaxPeriod, MaxPeriod>>) : s \in {t \in Samples : Len(t.x) = 3}}
    /\ fill_value = 0
    /\ calls = <<>>
    /\ PoolUnused
    /\ FilterUnused
    /\ RadialUnused
    /\ HistUnused
    /\ GridUnused

PoolNext ==
    \/ \E batch \in Batches, procs \in 1..MaxProcs : EvaluateCall(batch, procs)
    \/ WorkerTake
    \/ \E i \in worker : WorkerFinish(i)
    \/ EvaluateExit

SpecPool == PoolInit /\ [][PoolNext]_vars

\* the WorkerFinish steps, told by what they do to worker: a worker that
\* holds a chunk hands its result over
WorkerDone == pool = "running" /\ \E i \in worker : worker' = worker \ {i}

\* the pool's workers take queued chunks and run them to the end (every
\* task completes), and the caller blocked in starmap wakes up once the
\* result is ready
SpecPoolFair ==
    /\ SpecPool
    /\ WF_vars(WorkerTake)
    /\ WF_worker(WorkerDone)
    /\ WF_vars(EvaluateExit)

-----------------------------------------------------------------------------
(* Claims on Wrap.evaluate *)

Fails(q) == q.fin # "finite"

\* C1: evaluate preserves query order: whatever the number of workers and
\* the order in which the chunks complete, it returns one row per query
\* point and row k is the result computed for the k-th query point.
C1_OrderPreserved ==
    pc = "returned" =>
        /\ Len(ret) = Len(X)
        /\ \A k \in 1..Len(X) :
              ret[k] = <<_evaluate(wrap, X[k].v, fill_value)>>

\* evaluate returned after two workers completed the chunks out of order,
\* for query points with different results.
C1_Witness ==
    /\ pc = "returned"
    /\ processes >= 2
    /\ Len(X) >= 3
    /\ history.reordered
    /\ \E i, j \in DOMAIN ret : ret[i] # ret[j]

\* C2: a query point that raises inside a worker aborts the whole batch:
\* evaluate raises the exception of a failing point and returns no result
\* array, whatever number of other points completed successfully.
C2_FailureAbortsBatch ==
    (pc \in {"returned", "raised"} /\ \E k \in 1..Len(X) : Fails(X[k])) =>
        /\ pc = "raised"
        /\ ret \in {task(wrap, X[k], fill_value).exc :
                        k \in {j \in 1..Len(X) : Fails(X[j])}}

\* evaluate raised although other chunks completed successfully.
C2_Witness ==
    /\ pc = "raised"
    /\ history.succeeded >= 2
    /\ \E k \in 1..Len(X) : Fails(X[k])
    /\ \E k \in 1..Len(X) : ~Fails(X[k])

\* C19: every evaluate call creates its own pool (none is running when the
\* call is entered); once evaluate has returned or raised, also because a
\* task raised, its pool is terminated and no worker holds a chunk or has
\* one queued; and a call whose tasks all complete returns or raises.
C19_PoolScopedToCall ==
    /\ [][pc # "waiting" /\ pc' = "waiting" =>
              pool # "running" /\ pool' = "running" /\ worker' = {}]_vars
    /\ [](pc \in {"returned", "raised"} =>
              pool = "terminated" /\ worker = {} /\ taskqueue = << >>)
    /\ (pc = "waiting" ~> pc \in {"returned", "raised"})

\* evaluate raised after a task raised in one worker while other chunks had
\* completed, and its pool is terminated
C19_Witness ==
    /\ pc = "raised"
    /\ pool = "terminated"
    /\ processes >= 2
    /\ history.succeeded >= 1
    /\ history.reordered

-----------------------------------------------------------------------------
(* Numpy arrays are [shape |-> <<n1, ...>>, data |-> [index tuple -> value]] *)
(* with indexes from 0.  A call that can raise returns [err, val].          *)

Indices(shape) ==
    IF Len(shape) = 2
    THEN (0..(shape[1] - 1)) \X (0..(shape[2] - 1))
    ELSE (0..(shape[1] - 1)) \X (0..(shape[2] - 1)) \X (0..(shape[3] - 1))

RECURSIVE Fact(_)
Fact(n) == IF n <= 1 THEN 1 ELSE n * Fact(n - 1)

\* Frequencies are integers in units of 1/FreqDen (every n*d divides
\* FreqDen), wave vectors in units of 2*pi/FreqDen and squared norms in
\* units of (2*pi/FreqDen)^2.
FreqDen == 2 * Fact(MaxN)

\* np.fft.fftfreq(n, d=d): [0, 1, ..., (n-1)//2, -(n//2), ..., -1]/(n*d)
fftfreq(n, d) ==
    [k \in 0..(n - 1) |->
        (IF k < ((n - 1) \div 2) + 1 THEN k ELSE k - n) * (FreqDen \div (n * d))]

\* a[:, :, c] = v for a 1D array v and a 2D slice of shape <<n1, n2>>: v is
\* broadcast along the last axis of the slice, which its length must match
\* (or be 1); the value assigned to the slice at [i, j]
slice_assign_ok(n2, v) == Cardinality(DOMAIN v) = n2 \/ Cardinality(DOMAIN v) = 1
slice_assigned(v, j) == IF Cardinality(DOMAIN v) = 1 THEN v[0] ELSE v[j]

\* vector_vector_grid(vector1, vector2):
\*   M = np.zeros((len1, len2, 2)); M[:, :, 0] = vector1
\*   M = np.transpose(M, (1, 0, 2)); M[:, :, 1] = vector2
vector_vector_grid(vector1, vector2) ==
    LET len1 == Cardinality(DOMAIN vector1)
        len2 == Cardinality(DOMAIN vector2)
    IN  IF ~slice_assign_ok(len2, vector1)      \* slice of shape (len1, len2)
        THEN [err |-> "ValueError"]
        ELSE IF ~slice_assign_ok(len1, vector2) \* slice of shape (len2, len1)
        THEN [err |-> "ValueError"]
        ELSE [err |-> "",
              val |-> [shape |-> <<len2, len1, 2>>,
                       data |-> [idx \in Indices(<<len2, len1, 2>>) |->
                           IF idx[3] = 0
                           \* M[a, b, 0] is the M[b, a, 0] of before the transposition
                           THEN slice_assigned(vector1, idx[1])
                           ELSE slice_assigned(vector2, idx[2])]]]

\* wave_vectors_2D(nx, ny, d) = 2*pi*vector_vector_grid(fftfreq(nx), fftfreq(ny))
wave_vectors_2D(nx, ny, d) == vector_vector_grid(fftfreq(nx, d), fftfreq(ny, d))

-----------------------------------------------------------------------------
(* FFT2Dfilter *)

\* A Fourier coefficient amp*exp(-ex/2) (ex in units of (2*pi/FreqDen)^2
\* times sigma^2) is [amp, ex]; Zero is the coefficient 0.
Zero == [amp |-> 0, ex |-> 0]
times(c, e) == IF c.amp = 0 THEN Zero ELSE [amp |-> c.amp, ex |-> c.ex + e]

\* A threshold t is the rational num/den that t*|t| is, in units of
\* (2*pi/FreqDen)^2; den = 0 is +infinity.  N is a squared norm.
lower(N, t) == N * t.den < t.num
higher(N, t) == N * t.den > t.num

\* np.divide(2*np.pi, threshold) for a wave length (in the units of d)
divide_2pi(length) ==
    IF length = 0 THEN [den |-> 0, num |-> 1]
    ELSE [den |-> length * length,
          num |-> (IF length > 0 THEN 1 ELSE -1) * FreqDen * FreqDen]

\* np.sum(wave_vectors**2, axis=-1)
sum_squares(w) ==
    [shape |-> <<w.shape[1], w.shape[2]>>,
     data |-> [idx \in Indices(<<w.shape[1], w.shape[2]>>) |->
                  w.data[<<idx[1], idx[2], 0>>] * w.data[<<idx[1], idx[2], 0>>]
                + w.data[<<idx[1], idx[2], 1>>] * w.data[<<idx[1], idx[2], 1>>]]]

\* FFT2Dfilter.__init__(signalFFT, d=d) or (signalFFT, wave_vectors=ext):
\* the heap and the filter made, or the error of wave_vectors_2D.
\* wave_vectors_norm is kept squared.
FFT2Dfilter__init__(signalFFT, d, ext) ==
    LET w == IF ext = <<>>
             THEN wave_vectors_2D(signalFFT.shape[1], signalFFT.shape[2], d)
             ELSE [err |-> "", val |-> ext]
    IN  IF w.err # "" THEN [err |-> w.err]
        ELSE [err |-> "",
              arrays |-> <<signalFFT, w.val, sum_squares(w.val)>>,
              filter |-> [signalFFT |-> 1, wave_vectors |-> 2, wave_vectors_norm |-> 3]]

\* mutant of deepcopy: copy.copy, the copy shares the arrays of the receiver
copy_shallow(as, f) == [arrays |-> as, filter |-> f]

\* deepcopy(self): the three arrays are copied to new arrays
deepcopy(as, f) ==
    [arrays |-> as \o <<as[f.signalFFT], as[f.wave_vectors], as[f.wave_vectors_norm]>>,
     filter |-> [signalFFT |-> Len(as) + 1,
                 wave_vectors |-> Len(as) + 2,
                 wave_vectors_norm |-> Len(as) + 3]]

\* a[mask] = 0 for a boolean mask over the leading two axes of a; the mask
\* must have the shape of those axes
mask_assign_zero(a, shape, mask) ==
    IF shape # <<a.shape[1], a.shape[2]>>
    THEN [err |-> "IndexError"]
    ELSE [err |-> "",
          val |-> [a EXCEPT !.data = [idx \in DOMAIN a.data |->
                      IF mask[<<idx[1], idx[2]>>] THEN Zero ELSE a.data[idx]]]]

\* in-place a *= b with Numpy broadcasting: the shape of b, aligned on the
\* trailing axes of a, must match a or be 1 on every axis
broadcastable(A, B) ==
    /\ Len(B) <= Len(A)
    /\ \A k \in 1..Len(B) : B[k] = A[Len(A) - Len(B) + k] \/ B[k] = 1

imul(a, b) ==
    IF ~broadcastable(a.shape, b.shape)
    THEN [err |-> "ValueError"]
    ELSE [err |-> "",
          val |-> [a EXCEPT !.data = [idx \in DOMAIN a.data |->
                      times(a.data[idx],
                            b.data[[k \in 1..Len(b.shape) |->
                                IF b.shape[k] = 1 THEN 0
                                ELSE idx[Len(a.shape) - Len(b.shape) + k]]])]]]

\* np.reshape(b, b.shape + (1,)) of a 2D array
reshape_1(b) ==
    [shape |-> b.shape \o <<1>>,
     data |-> [idx \in Indices(b.shape \o <<1>>) |-> b.data[<<idx[1], idx[2]>>]]]

\* what a method returns: the heap and the new filter, or an error that
\* leaves the heap as it was
returned(c, signal) ==
    IF signal.err # "" THEN [err |-> signal.err]
    ELSE [err |-> "",
          arrays |-> [c.arrays EXCEPT ![c.filter.signalFFT] = signal.val],
          filter |-> c.filter]

\* mutant of cut_low_wave_frequencies: the comparison is not strict
cut_low_wave_frequencies_le(as, f, threshold) ==
    LET c == deepcopy(as, f)
        norm == c.arrays[c.filter.wave_vectors_norm]
    IN  returned(c, mask_assign_zero(c.arrays[c.filter.signalFFT], norm.shape,
            [idx \in DOMAIN norm.data |-> ~higher(norm.data[idx], threshold)]))

cut_low_wave_frequencies(as, f, threshold) ==
    LET c == deepcopy(as, f)
        norm == c.arrays[c.filter.wave_vectors_norm]
    IN  returned(c, mask_assign_zero(c.arrays[c.filter.signalFFT], norm.shape,
            [idx \in DOMAIN norm.data |-> lower(norm.data[idx], threshold)]))

cut_high_wave_frequencies(as, f, threshold) ==
    LET c == deepcopy(as, f)
        norm == c.arrays[c.filter.wave_vectors_norm]
    IN  returned(c, mask_assign_zero(c.arrays[c.filter.signalFFT], norm.shape,
            [idx \in DOMAIN norm.data |-> higher(norm.data[idx], threshold)]))

cut_low_wave_lengths(as, f, threshold) ==
    cut_high_wave_frequencies(as, f, divide_2pi(threshold))

cut_high_wave_lengths(as, f, threshold) ==
    cut_low_wave_frequencies(as, f, divide_2pi(threshold))

\* gaussian_filter(sigma): the coefficients are multiplied in place by
\* exp(-1/2*sigma**2*np.sum(self.wave_vectors**2, axis=-1)); when that
\* raises ValueError, by the same reshaped to shape + (1,)
gaussian_filter(as, f, sigma) ==
    LET c == deepcopy(as, f)
        sq == sum_squares(as[f.wave_vectors])
        gaussian_coefficients ==
            [shape |-> sq.shape,
             data |-> [idx \in DOMAIN sq.data |-> sigma * sigma * sq.data[idx]]]
        try == imul(c.arrays[c.filter.signalFFT], gaussian_coefficients)
    IN  IF sigma = 0 THEN [err |-> "", arrays |-> c.arrays, filter |-> c.filter]
        ELSE IF try.err = "" THEN returned(c, try)
        ELSE returned(c, imul(c.arrays[c.filter.signalFFT],
                              reshape_1(gaussian_coefficients)))

-----------------------------------------------------------------------------
(* Specification SpecFilter: a filter is constructed from an array of      *)
(* Fourier coefficients, with the wave vectors computed from d or supplied *)
(* by the caller, and filtering methods are called on the filters made so  *)
(* far; or wave_vectors_2D is called directly.                             *)

\* shapes of signalFFT: 2D, or 3D with a trailing axis of vector components
SignalShapes ==
    { <<1, 1>>, <<2, 2>>, <<1, 2>>, <<2, 1>>,
      <<2, 2, 1>>, <<2, 2, 2>>, <<1, 2, 2>>, <<2, 1, 2>> }

\* leading shapes of the wave-vector grids a caller supplies
ExtShapes == { <<1, 1>>, <<2, 2>>, <<1, 2>>, <<2, 1>> }

\* the coefficients of the input: all different and not zero
signal(shape) ==
    [shape |-> shape,
     data |-> [idx \in Indices(shape) |->
        [amp |-> 1 + (idx[1] * shape[2] + idx[2]) * (IF Len(shape) = 3 THEN shape[3] ELSE 1)
                   + (IF Len(shape) = 3 THEN idx[3] ELSE 0),
         ex |-> 0]]]

\* a caller's grid of wave vectors for a window of shape <<nx, ny>>, d = 1
ext_wave_vectors(shape) ==
    [shape |-> <<shape[1], shape[2], 2>>,
     data |-> [idx \in Indices(<<shape[1], shape[2], 2>>) |->
        IF idx[3] = 0 THEN fftfreq(shape[1], 1)[idx[1]]
        ELSE fftfreq(shape[2], 1)[idx[2]]]]

\* squared norm of the Nyquist wave vector of a window of 2 samples, d = 1
Nyquist2 == (FreqDen \div 2) * (FreqDen \div 2)

Thresholds == {-1, 0, Nyquist2, Nyquist2 + 1}
Lengths == {0, 2}
Sigmas == {0, 1}

\* a frequency threshold t >= 0 with t^2 = T, or a negative one (T < 0)
frequency(T) == [den |-> 1, num |-> T]

FilterInit ==
    /\ WrapUnused
    /\ PoolUnused
    /\ FilterUnused
    /\ RadialUnused
    /\ HistUnused
    /\ GridUnused

\* FFT2Dfilter(signalFFT, d=d) when ext = <<>>, or
\* FFT2Dfilter(signalFFT, wave_vectors=ext)
Construct(shape, d, ext) ==
    /\ filters = <<>> /\ raised = "" /\ wv = <<>>
    /\ LET res == FFT2Dfilter__init__(signal(shape), d, ext)
       IN  IF res.err # ""
           THEN raised' = res.err /\ UNCHANGED <<arrays, filters>>
           ELSE /\ raised' = ""
                /\ arrays' = res.arrays
                /\ filters' = << [signalFFT |-> res.filter.signalFFT,
                                  wave_vectors |-> res.filter.wave_vectors,
                                  wave_vectors_norm |-> res.filter.wave_vectors_norm,
                                  call |-> [op |-> "__init__", self |-> 0, arg |-> d]] >>
    /\ UNCHANGED <<wv, gridVars, wrapVars, radialVars, histVars, evalVars, poolVars>>

\* the outcome of a method called on filter r: the new filter joins the
\* filters, or the exception is raised and nothing else changes
Outcome(res, op, r, arg) ==
    /\ filters # <<>>
    /\ Len(filters) <= MaxOps
    /\ IF res.err # ""
       THEN raised' = res.err /\ UNCHANGED <<arrays, filters>>
       ELSE /\ raised' = ""
            /\ arrays' = res.arrays
            /\ filters' = Append(filters,
                                 [signalFFT |-> res.filter.signalFFT,
                                  wave_vectors |-> res.filter.wave_vectors,
                                  wave_vectors_norm |-> res.filter.wave_vectors_norm,
                                  call |-> [op |-> op, self |-> r, arg |-> arg]])
    /\ UNCHANGED <<wv, gridVars, wrapVars, radialVars, histVars, evalVars, poolVars>>

CutLowWaveFrequencies(r, T) ==
    Outcome(cut_low_wave_frequencies(arrays, filters[r], frequency(T)),
            "cut_low_wave_frequencies", r, T)

CutHighWaveFrequencies(r, T) ==
    Outcome(cut_high_wave_frequencies(arrays, filters[r], frequency(T)),
            "cut_high_wave_frequencies", r, T)

CutLowWaveLengths(r, length) ==
    Outcome(cut_low_wave_lengths(arrays, filters[r], length),
            "cut_low_wave_lengths", r, length)

CutHighWaveLengths(r, length) ==
    Outcome(cut_high_wave_lengths(arrays, filters[r], length),
            "cut_high_wave_lengths", r, length)

GaussianFilter(r, sigma) ==
    Outcome(gaussian_filter(arrays, filters[r], sigma), "gaussian_filter", r, sigma)

\* a direct call wave_vectors_2D(nx, ny, d)
WaveVectorsCall(nx, ny, d) ==
    /\ filters = <<>> /\ raised = "" /\ wv = <<>>
    /\ wv' = [nx |-> nx, ny |-> ny, d |-> d, out |-> wave_vectors_2D(nx, ny, d)]
    /\ UNCHANGED <<arrays, filters, raised, gridVars, wrapVars, radialVars, histVars, evalVars, poolVars>>

FilterNext ==
    \/ \E shape \in SignalShapes, d \in {1, 2} : Construct(shape, d, <<>>)
    \/ \E shape \in SignalShapes, e \in ExtShapes : Construct(shape, 1, ext_wave_vectors(e))
    \/ \E r \in DOMAIN filters, T \in Thresholds : CutLowWaveFrequencies(r, T)
    \/ \E r \in DOMAIN filters, T \in Thresholds : CutHighWaveFrequencies(r, T)
    \/ \E r \in DOMAIN filters, length \in Lengths : CutLowWaveLengths(r, length)
    \/ \E r \in DOMAIN filters, length \in Lengths : CutHighWaveLengths(r, length)
    \/ \E r \in DOMAIN filters, sigma \in Sigmas : GaussianFilter(r, sigma)
    \/ \E nx \in 1..MaxN, ny \in 1..MaxN, d \in {1, 2} : WaveVectorsCall(nx, ny, d)

SpecFilter == FilterInit /\ [][FilterNext]_vars

-----------------------------------------------------------------------------
(* Claims on FFT2Dfilter and wave_vectors_2D *)

signalFFT(k) == arrays[filters[k].signalFFT]
wave_vectors(k) == arrays[filters[k].wave_vectors]
wave_vectors_norm(k) == arrays[filters[k].wave_vectors_norm]

\* C5: cut_low_wave_frequencies(t) then cut_high_wave_frequencies(t) yields
\* a filter in which every coefficient whose wave-vector norm differs from
\* t is zero and every coefficient whose norm equals t keeps its original
\* value.
C5_LowThenHighKeepsBoundary ==
    \A k \in DOMAIN filters :
        LET high == filters[k].call
        IN  (high.op = "cut_high_wave_frequencies"
                /\ filters[high.self].call.op = "cut_low_wave_frequencies"
                /\ filters[high.self].call.arg = high.arg) =>
            LET original == signalFFT(filters[high.self].call.self)
            IN  \A idx \in DOMAIN signalFFT(k).data :
                    signalFFT(k).data[idx] =
                        IF wave_vectors_norm(k).data[<<idx[1], idx[2]>>] = high.arg
                        THEN original.data[idx]
                        ELSE Zero

\* Both cuts were applied at the norm of a bin: that bin keeps its non-zero
\* coefficient while other bins, below and above, are zeroed.
C5_Witness ==
    \E k \in DOMAIN filters :
        /\ filters[k].call.op = "cut_high_wave_frequencies"
        /\ filters[filters[k].call.self].call.op = "cut_low_wave_frequencies"
        /\ filters[filters[k].call.self].call.arg = filters[k].call.arg
        /\ \E i, j, l \in DOMAIN signalFFT(k).data :
              /\ wave_vectors_norm(k).data[<<i[1], i[2]>>] = filters[k].call.arg
              /\ signalFFT(k).data[i] # Zero
              /\ wave_vectors_norm(k).data[<<j[1], j[2]>>] < filters[k].call.arg
              /\ wave_vectors_norm(k).data[<<l[1], l[2]>>] > filters[k].call.arg
              /\ signalFFT(k).data[j] = Zero
              /\ signalFFT(k).data[l] = Zero

Content(k) == <<signalFFT(k), wave_vectors(k), wave_vectors_norm(k)>>
References(f) == {f.signalFFT, f.wave_vectors, f.wave_vectors_norm}

\* C6: copy-on-filter: every filtering call returns a new filter value and
\* leaves the coefficient array, the wave-vector grid and the norm array of
\* the receiver, and of every earlier filter, as they were.
C6_CopyOnFilter ==
    [][ /\ \A k \in DOMAIN filters :
              k \in DOMAIN filters' /\ Content(k)' = Content(k)
        /\ \A k \in DOMAIN filters' \ DOMAIN filters :
              \A j \in DOMAIN filters :
                  References(filters'[k]) \cap References(filters[j]) = {} ]_vars

\* A chain of two calls that both changed coefficients: the second was made
\* on the result of the first.
C6_Witness ==
    /\ Len(filters) >= 3
    /\ filters[3].call.self = 2
    /\ filters[2].call.self = 1
    /\ signalFFT(3) # signalFFT(2)
    /\ signalFFT(2) # signalFFT(1)

\* the wave-vector grid of filter k has the leading shape of its coefficients
Matching(k) ==
    /\ wave_vectors(k).shape[1] = signalFFT(k).shape[1]
    /\ wave_vectors(k).shape[2] = signalFFT(k).shape[2]

\* C7: gaussian_filter(sigma) multiplies the coefficient of every bin
\* (i, j), and every component [i, j, comp] when there is a trailing vector
\* axis, by the factor exp(-sigma^2*|k(i,j)|^2/2) of that bin, for every
\* shape.
C7_GaussianPerBin ==
    \A k \in DOMAIN filters :
        (filters[k].call.op = "gaussian_filter" /\ Matching(k)) =>
            \A idx \in DOMAIN signalFFT(k).data :
                signalFFT(k).data[idx] =
                    times(signalFFT(filters[k].call.self).data[idx],
                          filters[k].call.arg * filters[k].call.arg
                            * wave_vectors_norm(k).data[<<idx[1], idx[2]>>])

\* C8: a filter constructed with a supplied wave_vectors grid whose leading
\* two dimensions differ from those of the coefficient array fails at
\* construction: no filter object is produced.
C8_ShapeMismatchRejected ==
    \A k \in DOMAIN filters : Matching(k)

\* C9: wave_vectors_2D(nx, ny, d) succeeds for all positive nx, ny and
\* returns an array of shape (nx, ny, 2) whose entry [i, j] is
\* 2*pi*(f_nx(i), f_ny(j)).
C9_WaveVectorsGrid ==
    wv # <<>> =>
        /\ wv.out.err = ""
        /\ wv.out.val.shape = <<wv.nx, wv.ny, 2>>
        /\ \A idx \in DOMAIN wv.out.val.data :
              wv.out.val.data[idx] =
                  IF idx[3] = 0 THEN fftfreq(wv.nx, wv.d)[idx[1]]
                  ELSE fftfreq(wv.ny, wv.d)[idx[2]]

-----------------------------------------------------------------------------
(* Grid *)

\* Grid.__init__(grid, extent): extent = (left, right, bottom, top);
\* sep_boxes = box_size/shape[:2] is kept as the pair box_size, shape.
\* The value of cell [a, b] of the sample array is its rank a*shape[1] + b.
Grid__init__(shape, extent) ==
    [grid |-> [idx \in Indices(shape) |-> idx[1] * shape[2] + idx[2]],
     shape |-> shape,
     extent |-> extent,
     box_size |-> <<extent[2] - extent[1], extent[4] - extent[3]>>]

\* Grid.in_grid(x, y)
in_grid(g, x, y) ==
    /\ x >= g.extent[1] /\ x <= g.extent[2]
    /\ y >= g.extent[3] /\ y <= g.extent[4]

\* a[i] of an axis of length n: negative indexes count from the end,
\* indexes outside -n..n-1 raise IndexError
index_ok(i, n) == -n <= i /\ i < n
index_of(i, n) == IF i < 0 THEN i + n ELSE i

\* Grid.get_value_cartesian(x, y); (x - left)//sep_boxes_x is
\* floor((x - left)*shape[0]/box_size[0])
get_value_cartesian(g, x, y) ==
    IF ~in_grid(g, x, y) THEN [kind |-> "None"]
    ELSE LET index_y == floor((x - g.extent[1]) * g.shape[1], g.box_size[1]) % g.shape[1]
             index_x == -1 - (floor((y - g.extent[3]) * g.shape[2], g.box_size[2]) % g.shape[2])
         IN  IF index_ok(index_x, g.shape[1]) /\ index_ok(index_y, g.shape[2])
             THEN [kind |-> "value",
                   cell |-> <<index_of(index_x, g.shape[1]), index_of(index_y, g.shape[2])>>,
                   value |-> g.grid[<<index_of(index_x, g.shape[1]),
                                      index_of(index_y, g.shape[2])>>]]
             ELSE [kind |-> "IndexError"]

\* np.transpose(M, (1, 0, 2))
np_transpose(M) ==
    [shape |-> <<M.shape[2], M.shape[1], M.shape[3]>>,
     data |-> [idx \in Indices(<<M.shape[2], M.shape[1], M.shape[3]>>) |->
                  M.data[<<idx[2], idx[1], idx[3]>>]]]

\* extent[0] + sep_boxes_x/2 + np.arange(sep_boxes_x*shape[0], step=sep_boxes_x),
\* sep_boxes_x = box_size[0]/shape[0]: shape[0] points, as fractions
x_centres(g) ==
    [k \in 0..(g.shape[1] - 1) |->
        ratio(2 * g.extent[1] * g.shape[1] + (2 * k + 1) * g.box_size[1],
              2 * g.shape[1])]

\* (extent[-2] + sep_boxes_y/2 + np.arange(sep_boxes_y*shape[0],
\* step=sep_boxes_y))[::-1], sep_boxes_y = box_size[1]/shape[1]:
\* shape[0] points, the last first
y_centres(g) ==
    [k \in 0..(g.shape[1] - 1) |->
        ratio(2 * g.extent[3] * g.shape[2]
                  + (2 * (g.shape[1] - 1 - k) + 1) * g.box_size[2],
              2 * g.shape[2])]

\* Grid.get_grid_coordinates()
get_grid_coordinates(g) ==
    LET M == vector_vector_grid(x_centres(g), y_centres(g))
    IN  IF M.err # "" THEN M ELSE [err |-> "", val |-> np_transpose(M.val)]

-----------------------------------------------------------------------------
(* Specification SpecGrid: a Grid is constructed over an extent and        *)
(* looked up at cartesian coordinates.                                     *)

Extents == { <<-2, 2, -2, 2>>, <<0, 3, -1, 1>> }

GridInit ==
    /\ grid \in {Grid__init__(<<n0, n1>>, extent) :
                    n0 \in 1..MaxShape, n1 \in 1..MaxShape, extent \in Extents}
    /\ lookup = <<>>
    /\ grid_coordinates = <<>>
    /\ WrapUnused
    /\ PoolUnused
    /\ FilterUnused
    /\ RadialUnused
    /\ HistUnused

GetValueCartesian(x, y) ==
    /\ lookup' = [x |-> x, y |-> y, out |-> get_value_cartesian(grid, x, y)]
    /\ UNCHANGED <<grid, grid_coordinates, fftVars, wrapVars, radialVars, histVars, evalVars, poolVars>>

\* grid.get_grid_coordinates(), which saves the array in self.grid_coordinates
GetGridCoordinates ==
    /\ grid_coordinates' = get_grid_coordinates(grid)
    /\ UNCHANGED <<grid, lookup, fftVars, wrapVars, radialVars, histVars, evalVars, poolVars>>

GridNext ==
    \/ \E x \in -MaxCoord..MaxCoord, y \in -MaxCoord..MaxCoord : GetValueCartesian(x, y)
    \/ GetGridCoordinates

SpecGrid == GridInit /\ [][GridNext]_vars

-----------------------------------------------------------------------------
(* Claims on Grid *)

\* C10: get_value_cartesian(x, y) returns None exactly when (x, y) lies
\* outside the closed extent rectangle; a point outside is never resolved
\* to a cell, and a point inside or on the boundary always returns a cell
\* value.
C10_NoneIffOutside ==
    lookup # <<>> =>
        LET inside == /\ grid.extent[1] <= lookup.x /\ lookup.x <= grid.extent[2]
                      /\ grid.extent[3] <= lookup.y /\ lookup.y <= grid.extent[4]
        IN  /\ ~inside => lookup.out.kind = "None"
            /\ inside => lookup.out.kind = "value"

\* C11: for every grid shape and every point inside the closed extent,
\* get_value_cartesian resolves each coordinate to
\* floor((coordinate - origin)/box_separation) modulo the length of the axis
\* that coordinate indexes (x the second axis, y the first axis, counted from
\* the end), so the resolved cell is always a cell of the sample array.
C11_IndexModuloOwnAxis ==
    (lookup # <<>> /\ in_grid(grid, lookup.x, lookup.y)) =>
        LET col == floor((lookup.x - grid.extent[1]) * grid.shape[1], grid.box_size[1])
                       % grid.shape[2]
            row == floor((lookup.y - grid.extent[3]) * grid.shape[2], grid.box_size[2])
                       % grid.shape[1]
        IN  /\ lookup.out.kind = "value"
            /\ lookup.out.cell = <<grid.shape[1] - 1 - row, col>>

-----------------------------------------------------------------------------
(* Cylindrical averages: g2Dto1D, g2Dto1Dsquare, g2Dto1Dgrid               *)
(* Grid values and means are exact fractions [num, den], den > 0, reduced. *)

RECURSIVE np_sum(_)
np_sum(s) == IF s = <<>> THEN ratio(0, 1) ELSE plus(Head(s), np_sum(Tail(s)))

\* np.mean of a non-empty list
np_mean(s) == LET t == np_sum(s) IN ratio(t.num, t.den * Len(s))

\* DictList: d[key] is [] for a key that was never set;
\* d[key] += values reads d[key], extends it and stores it under key
DictList == << >>
DictList__getitem__(d, key) == IF key \in DOMAIN d THEN d[key] ELSE << >>
DictList_iadd(d, key, values) ==
    (key :> (DictList__getitem__(d, key) \o values)) @@ d

\* a statement of a loop runs on the dictionary the statements before it
\* left: TRUE of every dictionary, once its keys are known
stored(d) == DOMAIN d \subseteq DOMAIN d

\* sorted(keys): ascending under lt
sorted(S, lt(_, _)) ==
    [k \in 1..Cardinality(S) |->
        CHOOSE a \in S : Cardinality({b \in S : lt(b, a)}) = k - 1]

\* a[-i] on an axis of length n, 0 <= i < n
negative(i, n) == (n - i) % n

\* [g2D[i, j], g2D[-i, j], g2D[i, -j], g2D[-i, -j]]
symmetric(g, i, j) ==
    LET mi == negative(i, g.shape[1])
        mj == negative(j, g.shape[2])
    IN  <<g.data[<<i, j>>], g.data[<<mi, j>>], g.data[<<i, mj>>], g.data[<<mi, mj>>]>>

(* float64 arithmetic: the radii of g2Dto1D are the keys of a dictionary   *)
(* and are compared with r_max, so they are computed as Numpy computes    *)
(* them                                                                    *)

\* naturals of any size: little-endian sequences of limbs in 0..Base-1,
\* the last limb not 0; << >> is 0
\* Base = 2^LimbBits
Base == 16384
LimbBits == 14

RECURSIVE big(_)
big(n) == IF n = 0 THEN << >> ELSE <<n % Base>> \o big(n \div Base)

RECURSIVE trim(_)
trim(a) == IF a = << >> \/ a[Len(a)] # 0 THEN a ELSE trim(SubSeq(a, 1, Len(a) - 1))

RECURSIVE big_add(_, _, _)
big_add(a, b, carry) ==
    IF a = << >> /\ b = << >> THEN big(carry)
    ELSE LET x == IF a = << >> THEN 0 ELSE Head(a)
             y == IF b = << >> THEN 0 ELSE Head(b)
             t == x + y + carry
         IN  <<t % Base>> \o big_add(IF a = << >> THEN a ELSE Tail(a),
                                     IF b = << >> THEN b ELSE Tail(b), t \div Base)

\* a * d + carry for a limb d
RECURSIVE big_mul_limb(_, _, _)
big_mul_limb(a, d, carry) ==
    IF a = << >> THEN big(carry)
    ELSE LET t == Head(a) * d + carry
         IN  <<t % Base>> \o big_mul_limb(Tail(a), d, t \div Base)

RECURSIVE big_mul(_, _)
big_mul(a, b) ==
    IF a = << >> \/ b = << >> THEN << >>
    ELSE trim(big_add(big_mul_limb(b, Head(a), 0), <<0>> \o big_mul(Tail(a), b), 0))

\* -1, 0, 1 as a < b, a = b, a > b
RECURSIVE big_cmp(_, _)
big_cmp(a, b) ==
    IF Len(a) # Len(b) THEN (IF Len(a) < Len(b) THEN -1 ELSE 1)
    ELSE IF a = << >> THEN 0
    ELSE IF a[Len(a)] # b[Len(b)] THEN (IF a[Len(a)] < b[Len(b)] THEN -1 ELSE 1)
    ELSE big_cmp(trim(SubSeq(a, 1, Len(a) - 1)), trim(SubSeq(b, 1, Len(b) - 1)))

RECURSIVE pow2(_)
pow2(k) == IF k = 0 THEN 1 ELSE 2 * pow2(k - 1)

RECURSIVE bits(_)
bits(n) == IF n = 0 THEN 0 ELSE 1 + bits(n \div 2)

bitlen(a) == IF a = << >> THEN 0 ELSE (Len(a) - 1) * LimbBits + bits(a[Len(a)])

\* a * 2^k
shl(a, k) ==
    IF a = << >> THEN a
    ELSE [n \in 1..(k \div LimbBits) |-> 0] \o big_mul_limb(a, pow2(k % LimbBits), 0)

\* floor(a / d) for a limb d, from the top limb down
RECURSIVE big_div_limb(_, _, _)
big_div_limb(a, d, rem) ==
    IF a = << >> THEN << >>
    ELSE LET t == rem * Base + a[Len(a)]
         IN  big_div_limb(SubSeq(a, 1, Len(a) - 1), d, t % d) \o <<t \div d>>

RECURSIVE big_mod_limb(_, _, _)
big_mod_limb(a, d, rem) ==
    IF a = << >> THEN rem
    ELSE big_mod_limb(SubSeq(a, 1, Len(a) - 1), d, (rem * Base + a[Len(a)]) % d)

\* floor(a / 2^k)
shr(a, k) ==
    IF k \div LimbBits >= Len(a) THEN << >>
    ELSE trim(big_div_limb(SubSeq(a, 1 + k \div LimbBits, Len(a)), pow2(k % LimbBits), 0))

\* a # 0 mod 2^k
lowbits(a, k) ==
    \/ \E n \in 1..(k \div LimbBits) : n <= Len(a) /\ a[n] # 0
    \/ /\ k \div LimbBits < Len(a)
       /\ a[1 + k \div LimbBits] % pow2(k % LimbBits) # 0

bit(a, k) ==
    IF k \div LimbBits >= Len(a) THEN 0
    ELSE (a[1 + k \div LimbBits] \div pow2(k % LimbBits)) % 2

\* A Numpy float64 (and a Python float) x >= 0 is [m, e]: x = m * 2^e with m
\* of Mantissa bits, or m = 0 and e = 0.  The results of the operations are
\* rounded to the nearest float64, ties to even; the radii of g2Dto1D are
\* far from overflow and underflow.
Mantissa == 53


\* round(x * 2^e) to nearest, ties to even; sticky: the exact value is
\* a little more than x * 2^e
round(x, e, sticky) ==
    LET n == bitlen(x)
    IN  IF n = 0 THEN [m |-> << >>, e |-> 0]
        ELSE IF n <= Mantissa THEN [m |-> shl(x, Mantissa - n), e |-> e - (Mantissa - n)]
        ELSE LET s == n - Mantissa
                 q == shr(x, s)
                 half == bit(x, s - 1) = 1
                 rest == sticky \/ lowbits(x, s - 1)
                 up == half /\ (rest \/ bit(q, 0) = 1)
                 q1 == IF up THEN trim(big_add(q, <<1>>, 0)) ELSE q
             IN  IF bitlen(q1) > Mantissa
                 THEN [m |-> shr(q1, 1), e |-> e + s + 1]
                 ELSE [m |-> q1, e |-> e + s]

float(n) == round(big(n), 0, FALSE)

multiply(a, b) == round(big_mul(a.m, b.m), a.e + b.e, FALSE)

add(a, b) ==
    IF a.m = << >> THEN b
    ELSE IF b.m = << >> THEN a
    ELSE LET e == IF a.e <= b.e THEN a.e ELSE b.e
         IN  round(trim(big_add(shl(a.m, a.e - e), shl(b.m, b.e - e), 0)), e, FALSE)

\* a / n for whole numbers a >= 0 and 0 < n < Base
true_divide(a, n) ==
    LET x == shl(big(a), 5 * LimbBits)
    IN  round(trim(big_div_limb(x, n, 0)), -(5 * LimbBits), big_mod_limb(x, n, 0) # 0)

\* the bits k down to lo of the largest s with s * s <= y
RECURSIVE isqrt_bits(_, _, _, _)
isqrt_bits(y, s, k, lo) ==
    IF k < lo THEN s
    ELSE LET t == trim(big_add(s, shl(<<1>>, k), 0))
         IN  IF big_cmp(big_mul(t, t), y) <= 0 THEN isqrt_bits(y, t, k - 1, lo)
             ELSE isqrt_bits(y, s, k - 1, lo)

\* the largest s with s * s <= y, s < 2^(k + 1): bit k downwards, a limb
\* of bits at a time
RECURSIVE isqrt(_, _, _)
isqrt(y, s, k) ==
    IF k < 0 THEN s
    ELSE LET lo == IF k >= LimbBits THEN k - LimbBits + 1 ELSE 0
             t == isqrt_bits(y, s, k, lo)
         IN  IF big_cmp(t, s) = 0 THEN isqrt(y, s, lo - 1) ELSE isqrt(y, t, lo - 1)

sqrt(a) ==
    IF a.m = << >> THEN a
    ELSE LET s == IF a.e % 2 = 0 THEN Mantissa + 1 ELSE Mantissa + 2
             y == shl(a.m, s)
             r == isqrt(y, << >>, Mantissa + 1)
         IN  round(r, (a.e - s) \div 2, big_mul(r, r) # y)

\* a <= b
less_equal(a, b) ==
    IF a.m = << >> THEN TRUE
    ELSE IF b.m = << >> THEN FALSE
    ELSE IF a.e # b.e THEN a.e < b.e
    ELSE big_cmp(a.m, b.m) <= 0

\* a < b
float_less(a, b) == ~less_equal(b, a)

\* g2Dto1D: dL = np.array(L)/np.array(g2D.shape) and
\* radius = np.sqrt(np.sum((np.array((i, j))*dL)**2))
radius(shape, L, i, j) ==
    LET x == multiply(float(i), true_divide(L[1], shape[1]))
        y == multiply(float(j), true_divide(L[2], shape[2]))
    IN  sqrt(add(multiply(x, x), multiply(y, y)))

\* r_max = np.min(L)/2
r_max(L) == round(big(IF L[1] <= L[2] THEN L[1] ELSE L[2]), -1, FALSE)

within_strict(r, rmax) == float_less(r, rmax)

\* radius <= r_max
within(r, rmax) == less_equal(r, rmax)

\* for j in range(g2D.shape[1]), from j on
RECURSIVE g2Dto1D_row(_, _, _, _, _)
g2Dto1D_row(g, L, i, j, g1D_dic) ==
    IF j = g.shape[2] \/ ~stored(g1D_dic) THEN g1D_dic
    ELSE LET r == radius(g.shape, L, i, j)
         IN  IF within(r, r_max(L))
             THEN g2Dto1D_row(g, L, i, j + 1, DictList_iadd(g1D_dic, r, symmetric(g, i, j)))
             ELSE g2Dto1D_row(g, L, i, j + 1, g1D_dic)

\* for i in range(g2D.shape[0]), from i on
RECURSIVE g2Dto1D_loop(_, _, _, _)
g2Dto1D_loop(g, L, i, g1D_dic) ==
    IF i = g.shape[1] \/ ~stored(g1D_dic) THEN g1D_dic
    ELSE g2Dto1D_loop(g, L, i + 1, g2Dto1D_row(g, L, i, 0, g1D_dic))

\* g2Dto1D(g2D, L) with L = (Lx, Ly); a scalar L is (L, L).
\* Returns the sequence of [radius, value].
g2Dto1D(g, L) ==
    LET g1D_dic == g2Dto1D_loop(g, L, 0, DictList)
        keys == sorted(DOMAIN g1D_dic, float_less)
    IN  [k \in DOMAIN keys |-> [radius |-> keys[k], value |-> np_mean(g1D_dic[keys[k]])]]

\* g2Dto1Dsquare: sqradius <= sq_r_max = (shape[0]/2)**2
sq_within(sqradius, shape) == 4 * sqradius <= shape[1] * shape[1]

RECURSIVE g2Dto1Dsquare_row(_, _, _, _)
g2Dto1Dsquare_row(g, i, j, g1D_dic) ==
    IF j = g.shape[2] \/ ~stored(g1D_dic) THEN g1D_dic
    ELSE LET sqradius == i * i + j * j
         IN  IF sq_within(sqradius, g.shape)
             THEN g2Dto1Dsquare_row(g, i, j + 1,
                      DictList_iadd(g1D_dic, sqradius, symmetric(g, i, j)))
             ELSE g2Dto1Dsquare_row(g, i, j + 1, g1D_dic)

RECURSIVE g2Dto1Dsquare_loop(_, _, _)
g2Dto1Dsquare_loop(g, i, g1D_dic) ==
    IF i = g.shape[1] \/ ~stored(g1D_dic) THEN g1D_dic
    ELSE g2Dto1Dsquare_loop(g, i + 1, g2Dto1Dsquare_row(g, i, 0, g1D_dic))

less_int(a, b) == a < b

\* g2Dto1Dsquare(g2D, L) with scalar L: dL = L/g2D.shape[0] and the radius
\* of a bin is dL*np.sqrt(sqradius)
g2Dto1Dsquare(g, L) ==
    LET g1D_dic == g2Dto1Dsquare_loop(g, 0, DictList)
        keys == sorted(DOMAIN g1D_dic, less_int)
    IN  [k \in DOMAIN keys |->
            [radius |-> multiply(true_divide(L, g.shape[1]), sqrt(float(keys[k]))),
             value |-> np_mean(g1D_dic[keys[k]])]]

\* first loop of g2Dto1Dgrid: g1D_dic[grid[i, j]] += [g2D[i, j]];
\* grid[i, j] raises IndexError outside the radius grid
RECURSIVE g2Dto1Dgrid_row(_, _, _, _, _)
g2Dto1Dgrid_row(g, grid_, i, j, g1D_dic) ==
    IF j = g.shape[2] \/ ~stored(g1D_dic) THEN [err |-> "", val |-> g1D_dic]
    ELSE IF <<i, j>> \notin DOMAIN grid_.data THEN [err |-> "IndexError"]
    ELSE g2Dto1Dgrid_row(g, grid_, i, j + 1,
             DictList_iadd(g1D_dic, grid_.data[<<i, j>>], <<g.data[<<i, j>>]>>))

RECURSIVE g2Dto1Dgrid_loop(_, _, _, _)
g2Dto1Dgrid_loop(g, grid_, i, g1D_dic) ==
    IF i = g.shape[1] THEN [err |-> "", val |-> g1D_dic]
    ELSE LET row == g2Dto1Dgrid_row(g, grid_, i, 0, g1D_dic)
         IN  IF row.err # "" THEN row
             ELSE g2Dto1Dgrid_loop(g, grid_, i + 1, row.val)

cylindrical_le(g1D_, grid_) ==
    [shape |-> grid_.shape,
     data |-> [ij \in DOMAIN grid_.data |-> g1D_[Len(g1D_)].value]]

\* second loop of g2Dto1Dgrid: np.zeros(grid.shape), then every cell with
\* grid == radius is set to the mean of that radius
cylindrical(g1D_, grid_) ==
    [shape |-> grid_.shape,
     data |-> [ij \in DOMAIN grid_.data |->
                 IF \E k \in DOMAIN g1D_ : g1D_[k].radius = grid_.data[ij]
                 THEN g1D_[CHOOSE k \in DOMAIN g1D_ : g1D_[k].radius = grid_.data[ij]].value
                 ELSE ratio(0, 1)]]

\* g2Dto1Dgrid(g2D, grid, average_grid)
g2Dto1Dgrid(g, grid_, average_grid) ==
    LET loop == g2Dto1Dgrid_loop(g, grid_, 0, DictList)
        keys == sorted(DOMAIN loop.val, less)
        g1D_ == [k \in DOMAIN keys |->
                    [radius |-> keys[k], value |-> np_mean(loop.val[keys[k]])]]
    IN  IF loop.err # "" THEN loop
        ELSE IF ~average_grid THEN [err |-> "", val |-> [g1D |-> g1D_]]
        ELSE [err |-> "", val |-> [g1D |-> g1D_, g2D_cylindrical |-> cylindrical(g1D_, grid_)]]

-----------------------------------------------------------------------------
(* Specification SpecRadial: the cylindrical averages of a grid            *)

\* grids with distinct values in all cells, and grids of the squared
\* periodic distance to cell [0, 0]
periodic(i, n) == IF 2 * i <= n THEN i ELSE n - i

array(shape, kind) ==
    [shape |-> shape,
     data |-> [ij \in Indices(shape) |->
                 IF kind = "rank" THEN ratio(ij[1] * shape[2] + ij[2] + 1, 1)
                 ELSE IF kind = "sum" THEN ratio(ij[1] + ij[2], 1)
                 ELSE ratio(periodic(ij[1], shape[1]) * periodic(ij[1], shape[1])
                              + periodic(ij[2], shape[2]) * periodic(ij[2], shape[2]), 1)]]

Shapes == (1..MaxGrid) \X (1..MaxGrid)

\* a box of two lengths, or of one length for the large grid
BoxLengths(shape) ==
    IF shape[1] > MaxGrid THEN {<<L, L>> : L \in 1..MaxL} ELSE (1..MaxL) \X (1..MaxL)

RadialInit ==
    /\ g2D \in {array(shape, kind) : shape \in Shapes, kind \in {"rank", "periodic"}}
                \cup {array(<<LargeGrid, LargeGrid>>, "rank")}
    /\ g1D = [g2Dto1D |-> << >>, g2Dto1Dsquare |-> << >>, g2Dto1Dgrid |-> << >>]
    /\ HistUnused
    /\ WrapUnused
    /\ PoolUnused
    /\ FilterUnused
    /\ GridUnused

\* g2Dto1D(g2D, L): L = (Lx, Ly), or a scalar when Lx = Ly
G2Dto1D(L) ==
    /\ g1D.g2Dto1D = << >> /\ g1D.g2Dto1Dsquare = << >> /\ g1D.g2Dto1Dgrid = << >>
    /\ g1D' = [g1D EXCEPT !.g2Dto1D = [L |-> L, out |-> g2Dto1D(g2D, L)]]
    /\ UNCHANGED <<g2D, histVars, gridVars, fftVars, wrapVars, evalVars, poolVars>>

\* g2Dto1Dsquare(g2D, L), with the box length of the g2Dto1D call if there was one
G2Dto1Dsquare(L) ==
    /\ g1D.g2Dto1Dsquare = << >> /\ g1D.g2Dto1Dgrid = << >>
    /\ g1D.g2Dto1D # << >> => g1D.g2Dto1D.L = <<L, L>>
    /\ g1D' = [g1D EXCEPT !.g2Dto1Dsquare = [L |-> L, out |-> g2Dto1Dsquare(g2D, L)]]
    /\ UNCHANGED <<g2D, histVars, gridVars, fftVars, wrapVars, evalVars, poolVars>>

\* g2Dto1Dgrid(g2D, grid, average_grid=average_grid)
G2Dto1Dgrid(grid_, average_grid) ==
    /\ g1D.g2Dto1D = << >> /\ g1D.g2Dto1Dsquare = << >>
    /\ g1D.g2Dto1Dgrid # << >> => ~g1D.g2Dto1Dgrid.again
    /\ g1D' = [g1D EXCEPT !.g2Dto1Dgrid =
                  [grid |-> grid_, average_grid |-> average_grid, again |-> FALSE,
                   out |-> g2Dto1Dgrid(g2D, grid_, average_grid)]]
    /\ UNCHANGED <<g2D, histVars, gridVars, fftVars, wrapVars, evalVars, poolVars>>

\* the averaged grid a call returned is fed back in with the same radius grid:
\* g1D, g2D = g2Dto1Dgrid(g2D, grid, average_grid=True)
G2Dto1DgridAgain ==
    /\ g1D.g2Dto1Dgrid # << >>
    /\ g1D.g2Dto1Dgrid.average_grid
    /\ g1D.g2Dto1Dgrid.out.err = ""
    /\ g1D.g2Dto1Dgrid.out.val.g2D_cylindrical.shape = g2D.shape
    /\ g2D' = g1D.g2Dto1Dgrid.out.val.g2D_cylindrical
    /\ g1D' = [g1D EXCEPT !.g2Dto1Dgrid.out =
                                 g2Dto1Dgrid(g2D', g1D.g2Dto1Dgrid.grid, TRUE),
                             !.g2Dto1Dgrid.again = TRUE]
    /\ UNCHANGED <<histVars, gridVars, fftVars, wrapVars, evalVars, poolVars>>

RadialNext ==
    \/ \E L \in BoxLengths(g2D.shape) : G2Dto1D(L)
    \/ \E L \in 1..MaxL : G2Dto1Dsquare(L)
    \/ \E shape \in Shapes, kind \in {"sum", "periodic"}, average_grid \in BOOLEAN :
           G2Dto1Dgrid(array(shape, kind), average_grid)
    \/ G2Dto1DgridAgain

SpecRadial == RadialInit /\ [][RadialNext]_vars

-----------------------------------------------------------------------------
(* Claims on the cylindrical averages *)

\* the four periodic images of index pair ij, as a sequence of cells
Images(shape, ij) ==
    LET mi == (shape[1] - ij[1]) % shape[1]
        mj == (shape[2] - ij[2]) % shape[2]
    IN  <<ij, <<mi, ij[2]>>, <<ij[1], mj>>, <<mi, mj>>>>

\* sum of the values at the four images of every index pair of S (integer data)
RECURSIVE SumImages(_, _)
SumImages(g, S) ==
    IF S = {} THEN 0
    ELSE LET ij == CHOOSE a \in S : TRUE
             im == Images(g.shape, ij)
         IN  g.data[im[1]].num + g.data[im[2]].num + g.data[im[3]].num
                 + g.data[im[4]].num + SumImages(g, S \ {ij})

\* the radius of every index pair, as g2Dto1D(g2D, L) computes it (a table)
Radii(L) ==
    [ij \in Indices(g2D.shape) |-> radius(g2D.shape, L, ij[1], ij[2])] @@ << >>

\* C12: g2Dto1D returns exactly one (r, value) pair per distinct radius of
\* the index pairs within the cutoff r <= min(L)/2, in strictly ascending
\* order of r; value is the mean of the four periodic samples of every index
\* pair with that radius, and pairs beyond the cutoff are in no bin.  The
\* radius r of a pair is the float64 that np.sqrt(np.sum(...)) evaluates to.
C12_OneBinPerRadius ==
    g1D # << >> /\ g1D.g2Dto1D # << >> =>
        LET L == g1D.g2Dto1D.L
            out == g1D.g2Dto1D.out
            r == Radii(L)
            InCutoff == {ij \in DOMAIN r : less_equal(r[ij], r_max(L))}
            Bin(k) == {ij \in InCutoff : r[ij] = out[k].radius}
        IN  /\ \A ij \in InCutoff :
                  Cardinality({k \in DOMAIN out : ij \in Bin(k)}) = 1
            /\ \A k \in DOMAIN out :
                  /\ Bin(k) # {}
                  /\ out[k].value.num * 4 * Cardinality(Bin(k))
                         = out[k].value.den * SumImages(g2D, Bin(k))
            /\ \A k \in 1..(Len(out) - 1) :
                  float_less(out[k].radius, out[k + 1].radius)

\* a profile of two bins or more, one of them fed by two index pairs,
\* with a pair on the cutoff and a pair beyond it
C12_Witness ==
    /\ g1D # << >> /\ g1D.g2Dto1D # << >>
    /\ g2D.data[<<0, 0>>].num = 1
    /\ g2D.shape = <<2, 2>>
    /\ Len(g1D.g2Dto1D.out) = 2
    /\ g1D.g2Dto1D.out[2].radius = r_max(g1D.g2Dto1D.L)
    /\ g1D.g2Dto1D.out[2].value = ratio(5, 2)

\* both functions were called on the square grid g2D with the same box length
SameCall ==
    /\ g1D # << >>
    /\ g1D.g2Dto1D # << >> /\ g1D.g2Dto1Dsquare # << >>
    /\ g2D.shape[1] = g2D.shape[2]
    /\ g1D.g2Dto1D.L = <<g1D.g2Dto1Dsquare.L, g1D.g2Dto1Dsquare.L>>

\* C13: on the same square N x N grid and the same box length L, g2Dto1D
\* and g2Dto1Dsquare return the same profile: the same number of bins, one
\* per integer key i^2 + j^2 <= (N/2)^2, and the k-th bins have the same
\* radius and the same mean value.
C13_SquareSameProfile ==
    SameCall =>
        LET a == g1D.g2Dto1D.out
            b == g1D.g2Dto1Dsquare.out
            N == g2D.shape[1]
            Keys == {ij[1] * ij[1] + ij[2] * ij[2] : ij \in
                        {c \in Indices(g2D.shape) :
                            4 * (c[1] * c[1] + c[2] * c[2]) <= N * N}}
        IN  /\ Len(a) = Len(b)
            /\ Len(a) = Cardinality(Keys)
            /\ \A k \in DOMAIN a :
                  /\ a[k].radius = b[k].radius
                  /\ a[k].value = b[k].value

\* sum of the values of g at the cells of S
RECURSIVE SumCells(_, _)
SumCells(g, S) ==
    IF S = {} THEN ratio(0, 1)
    ELSE LET ij == CHOOSE a \in S : TRUE
         IN  plus(g.data[ij], SumCells(g, S \ {ij}))

\* the data cells that share the radius key of cell ij
SameKey(ij) == {c \in DOMAIN g2D.data : g1D.g2Dto1Dgrid.grid.data[c]
                                            = g1D.g2Dto1Dgrid.grid.data[ij]}

\* g2Dto1Dgrid was called with average_grid=True and a radius grid of the
\* shape of the data
AveragedCall ==
    /\ g1D # << >> /\ g1D.g2Dto1Dgrid # << >>
    /\ g1D.g2Dto1Dgrid.average_grid
    /\ g1D.g2Dto1Dgrid.grid.shape = g2D.shape

MismatchedCall ==
    /\ g1D # << >> /\ g1D.g2Dto1Dgrid # << >>
    /\ g1D.g2Dto1Dgrid.grid.shape # g2D.shape

\* C15: g2Dto1Dgrid rejects a radius grid whose shape differs from the shape
\* of the data grid with an error, whether the radius grid is smaller or
\* larger on either axis; it returns no profile and no grid then.
C15_RadiusGridShapeRejected ==
    MismatchedCall => g1D.g2Dto1Dgrid.out.err # ""

\* the distinct cells that the index pairs of S and their images name
Cells(S) == UNION {{Images(g2D.shape, ij)[n] : n \in 1..4} : ij \in S}

\* value is the mean of g2D over the distinct cells of the pairs of S
PlainMean(value, S) ==
    LET t == SumCells(g2D, Cells(S))
    IN  value.num * t.den * Cardinality(Cells(S)) = value.den * t.num

\* the integer keys of g2Dto1Dsquare within its cutoff
SquareKeys ==
    {ij[1] * ij[1] + ij[2] * ij[2] : ij \in
        {c \in Indices(g2D.shape) :
            4 * (c[1] * c[1] + c[2] * c[2]) <= g2D.shape[1] * g2D.shape[1]}}

\* C17: in g2Dto1D and g2Dto1Dsquare every distinct grid cell of a radius
\* bin is counted the same number of times in the mean of the bin, cells on
\* the axes and at the half-length index included: the value of a bin is
\* the plain mean of its distinct cells.
C17_EqualWeightPerCell ==
    /\ g1D # << >> /\ g1D.g2Dto1D # << >> =>
          LET r == Radii(g1D.g2Dto1D.L)
              out == g1D.g2Dto1D.out
          IN  \A k \in DOMAIN out :
                  PlainMean(out[k].value, {ij \in DOMAIN r : r[ij] = out[k].radius})
    /\ g1D # << >> /\ g1D.g2Dto1Dsquare # << >> =>
          LET out == g1D.g2Dto1Dsquare.out
              keys == sorted(SquareKeys, less_int)
          IN  \A k \in DOMAIN out :
                  PlainMean(out[k].value,
                      {ij \in Indices(g2D.shape) :
                          ij[1] * ij[1] + ij[2] * ij[2] = keys[k]})

-----------------------------------------------------------------------------
(* Histogram                                                               *)

\* the sign of n
sign(n) == IF n > 0 THEN 1 ELSE IF n < 0 THEN -1 ELSE 0

RECURSIVE power(_, _)
power(b, n) == IF n = 0 THEN 1 ELSE b * power(b, n - 1)

\* A bin edge is the float64 next to base * 10^(p/q) on the side `side`
\* (0: the number itself), base a fraction.  Values are whole numbers.
\* The sign of value - base * 10^(p/q):
compare(value, e) ==
    IF e.p = 0 THEN sign(value * e.base.den - e.base.num)
    ELSE IF value <= 0 \/ e.base.num <= 0 THEN (IF value <= 0 THEN -1 ELSE 1)
    ELSE sign(power(value * e.base.den, e.q) - power(e.base.num, e.q) * power(10, e.p))

\* self.values >= bin_inf
greater_equal(value, e) ==
    LET c == compare(value, e) IN c > 0 \/ (c = 0 /\ e.side <= 0)

\* self.values < bin_sup
less_sup(value, e) ==
    LET c == compare(value, e) IN c < 0 \/ (c = 0 /\ e.side > 0)

\* np.linspace(vmin, vmax, Nbins, endpoint=False): vmin + b*(vmax - vmin)/Nbins;
\* the first edge is vmin itself
np_linspace(vmin, vmax, Nbins) ==
    [b \in 1..Nbins |->
        [base |-> ratio(vmin * Nbins + (b - 1) * (vmax - vmin), Nbins),
         p |-> 0, q |-> 1, side |-> 0]]

\* 10**np.log10(v) is not v for every float64 v: log10(12) rounds to
\* 1.0791812460476249 (0.27 ulps above) and 10 to that power is 0.92 ulps
\* above 12, the float64 12.000000000000002; for v = 1 it is 1.
\* power_log10(v) is the side of v the float64 10**np.log10(v) lies on.
LogInexact == 12
power_log10(v) == IF v = LogInexact THEN 1 ELSE 0

\* np.logspace(np.log10(vmin), np.log10(vmax), Nbins, endpoint=False),
\* for 0 < vmin and vmax = vmin * 10^decades:
\* 10**(log10(vmin) + b*(log10(vmax) - log10(vmin))/Nbins)
np_logspace(vmin, decades, Nbins) ==
    [b \in 1..Nbins |->
        [base |-> ratio(vmin, 1), p |-> (b - 1) * decades, q |-> Nbins,
         side |-> IF b = 1 THEN power_log10(vmin) ELSE 0]]

\* np.empty(Nbins): memory that get_histogram writes before anything reads it
np_empty(Nbins) == [b \in 1..Nbins |-> [den |-> 0, num |-> 0]]

\* self.values = np.array([])
reset_values(h) == [h EXCEPT !.values = << >>]

\* Histogram(Nbins, vmin, vmax, log=log), vmax = vmin * 10^decades if log
Histogram__init__(Nbins, vmin, vmax, log, decades) ==
    reset_values(
        [Nbins |-> Nbins, vmin |-> vmin, vmax |-> vmax,
         bins |-> IF log THEN np_logspace(vmin, decades, Nbins)
                  ELSE np_linspace(vmin, vmax, Nbins),
         values |-> << >>, hist |-> np_empty(Nbins), ret |-> << >>])

\* np.append(self.values, value) for every value of values: a value is a
\* float or an array, here a sequence of numbers
RECURSIVE np_append_all(_, _)
np_append_all(held, values) ==
    IF values = << >> THEN held
    ELSE np_append_all(held \o Head(values), Tail(values))

\* add_values(*values, replace=replace)
add_values(h, values, replace) ==
    LET h1 == IF replace THEN reset_values(h) ELSE h
    IN  [h1 EXCEPT !.values = np_append_all(h1.values, values)]

\* bin_sup of bin b: self.bins[bin + 1], or self.vmax after the last bin
bin_sup(h, b) ==
    IF b + 1 \in DOMAIN h.bins THEN h.bins[b + 1]
    ELSE [base |-> ratio(h.vmax, 1), p |-> 0, q |-> 1, side |-> 0]

\* np.sum((self.values >= bin_inf)*(self.values < bin_sup))
count(h, b) ==
    Cardinality({n \in DOMAIN h.values :
        greater_equal(h.values[n], h.bins[b]) /\ less_sup(h.values[n], bin_sup(h, b))})

\* get_histogram(): the counts, divided by their sum unless it is 0;
\* the array returned is self.hist
get_histogram(h) ==
    LET counts == [b \in DOMAIN h.bins |-> count(h, b)]
        binned_values == SeqSum(counts)
        hist == IF binned_values = 0 THEN [b \in DOMAIN counts |-> ratio(0, 1)]
                ELSE [b \in DOMAIN counts |-> ratio(counts[b], binned_values)]
    IN  [h EXCEPT !.hist = hist, !.ret = hist]

-----------------------------------------------------------------------------
(* Specification SpecHist: one histogram, values added, reset and binned   *)

\* (vmin, vmax, decades): vmax = vmin * 10^decades where vmin > 0
Ranges == {<<0, 2, 0>>, <<1, 10, 1>>, <<LogInexact, 10 * LogInexact, 1>>}

\* values below, on and above the two ends of the range
Values(h) == {h.vmin - 1, h.vmin, h.vmin + 1, h.vmax - 1, h.vmax}

\* an argument of add_values: a float, or an array of two floats
Arguments(h) == {<<v>> : v \in Values(h)} \cup {<<h.vmin, h.vmin + 1>>}

HistInit ==
    /\ \E Nbins \in 1..MaxBins, r \in Ranges, log \in BOOLEAN :
           /\ log => r[1] > 0
           /\ histogram = Histogram__init__(Nbins, r[1], r[2], log, r[3])
    /\ RadialUnused
    /\ WrapUnused
    /\ PoolUnused
    /\ FilterUnused
    /\ GridUnused

\* histogram.add_values(*values, replace=replace)
AddValues(values, replace) ==
    /\ Len(np_append_all(IF replace THEN << >> ELSE histogram.values, values))
           <= MaxValues
    /\ histogram' = [add_values(histogram, values, replace) EXCEPT !.ret = << >>]
    /\ UNCHANGED <<radialVars, gridVars, fftVars, wrapVars, evalVars, poolVars>>

\* histogram.reset_values()
ResetValues ==
    /\ histogram' = [reset_values(histogram) EXCEPT !.ret = << >>]
    /\ UNCHANGED <<radialVars, gridVars, fftVars, wrapVars, evalVars, poolVars>>

\* histogram.get_histogram()
GetHistogram ==
    /\ histogram' = get_histogram(histogram)
    /\ UNCHANGED <<radialVars, gridVars, fftVars, wrapVars, evalVars, poolVars>>

HistNext ==
    \/ \E replace \in BOOLEAN :
         \/ AddValues(<< >>, replace)
         \/ \E a \in Arguments(histogram) : AddValues(<<a>>, replace)
         \/ \E a \in Arguments(histogram), b \in Arguments(histogram) :
                AddValues(<<a, b>>, replace)
    \/ ResetValues
    \/ GetHistogram

SpecHist == HistInit /\ [][HistNext]_vars

\* the held values in [vmin, vmax)
InRange == {n \in DOMAIN histogram.values :
               histogram.vmin <= histogram.values[n]
                   /\ histogram.values[n] < histogram.vmax}

\* the held values in the half-open interval of bin b: from the b-th of
\* Nbins evenly (or, for log, logarithmically) spaced points of
\* [vmin, vmax) up to the next one
InBin(b) ==
    {n \in DOMAIN histogram.values :
        LET v == histogram.values[n]
            inf == [histogram.bins[b] EXCEPT !.side = 0]
            sup == [bin_sup(histogram, b) EXCEPT !.side = 0]
        IN  compare(v, inf) >= 0 /\ compare(v, sup) < 0}

\* C16: after any sequence of add_values and reset_values calls,
\* get_histogram returns for each bin the fraction of the held values of
\* [vmin, vmax) that lie in the half-open interval of the bin; each such
\* value is counted in one bin, values outside [vmin, vmax) in none, the
\* fractions sum to 1 if a held value is in range and are all 0 if none is.
C16_HistogramFractions ==
    histogram # << >> /\ histogram.ret # << >> =>
        LET fractions == histogram.ret
        IN  /\ DOMAIN fractions = 1..histogram.Nbins
            /\ \A n \in InRange :
                  Cardinality({b \in DOMAIN fractions : n \in InBin(b)}) = 1
            /\ \A n \in DOMAIN histogram.values \ InRange :
                  \A b \in DOMAIN fractions : n \notin InBin(b)
            /\ \A b \in DOMAIN fractions :
                  fractions[b] = IF InRange = {} THEN ratio(0, 1)
                           ELSE ratio(Cardinality(InBin(b)), Cardinality(InRange))
            /\ InRange # {} => np_sum(fractions) = ratio(1, 1)

-----------------------------------------------------------------------------
(* Claims on the grid coordinates *)

\* get_value_cartesian at the fractions x and y: the lookup depends on the
\* coordinates relative to the extent only, so both are taken in units of
\* 1/(x.den * y.den)
ValueAt(x, y) ==
    LET unit == x.den * y.den
    IN  get_value_cartesian(
            [grid EXCEPT !.extent = [n \in 1..4 |-> unit * grid.extent[n]],
                         !.box_size = [n \in 1..2 |-> unit * grid.box_size[n]]],
            x.num * y.den, y.num * x.den)

\* C18: for every grid shape, get_grid_coordinates returns an array of
\* shape (shape[0], shape[1], 2), and for every cell (a, b) the lookup
\* get_value_cartesian at the coordinates of entry [a, b] returns the value
\* of cell (a, b).
C18_CoordinatesMatchLookup ==
    grid_coordinates # << >> =>
        /\ grid_coordinates.err = ""
        /\ grid_coordinates.val.shape = <<grid.shape[1], grid.shape[2], 2>>
        /\ \A ab \in Indices(grid.shape) :
              LET out == ValueAt(grid_coordinates.val.data[<<ab[1], ab[2], 0>>],
                                 grid_coordinates.val.data[<<ab[1], ab[2], 1>>])
              IN  /\ out.kind = "value"
                  /\ out.cell = ab
                  /\ out.value = grid.grid[ab]

====
